---- MODULE Spec2Model ----
(***************************************************************************)
(* Model of src/app.py: the news pipeline of NEURA PRO.                    *)
(*   NewsFetcher.fetch_google_rss / NewsFetcher.deduplicate                *)
(*   GeminiAgent.summarize (a generator)                                   *)
(*   process_all (a generator driven by one observer)                      *)
(* Texts are sequences of one-character strings (titles, topics) or of     *)
(* opaque text tokens (messages, chunks), so that lower(), isalnum(),      *)
(* strip(), slicing and concatenation are computed, not assumed.           *)
(* The wall-clock prefix that log() puts before each message is left out:  *)
(* a log line is its message.                                              *)
(***************************************************************************)
EXTENDS Integers, Sequences, FiniteSets, TLC

VARIABLES
    topics_in,      \* <<t1, t2, t3>>: the arguments of process_all
    pc,             \* position of the process_all generator
    logs,           \* process_all.logs
    valid_topics,   \* process_all.valid_topics
    idx,            \* 0-based index of the for loop over valid_topics
    all_data,       \* process_all.all_data: insertion-ordered dict
    master_table,   \* process_all.master_table
    df,             \* process_all.df
    emitted,        \* every tuple process_all has yielded, in order
    progress_calls, \* every fraction passed to progress(), in sixtieths
    fetch_calls,    \* number of calls of fetcher.fetch_google_rss
    responses,      \* the provider's response to each fetch, in order
    fetch_failed,   \* some fetch met an unreachable provider or raised
    sum_calls,      \* number of calls of agent.summarize
    sum_arg,        \* the mapping agent.summarize was called with
    accumulated,    \* GeminiAgent.summarize.accumulated
    chunks_seen,    \* chunks the backend stream has delivered
    yielded,        \* every text summarize has yielded, in order
    backend_calls,  \* number of calls of model.generate_content
    prompt,         \* the data lines of the prompt given to the backend
    stream,         \* the chunk texts the backend stream has delivered
    parked,         \* the frame of a second, suspended process_all generator
    cur,            \* which of the two generators the observer is pulling
    store,          \* the record held by the Preference Store
    p_ret,          \* what the last load_prefs / save_prefs call did
    d_pc,           \* position of a direct call of deduplicate
    d_items,        \* its argument
    d_out           \* its return value

vars == <<topics_in, pc, logs, valid_topics, idx, all_data, master_table, df,
          emitted, progress_calls, fetch_calls, responses, fetch_failed,
          sum_calls, sum_arg, accumulated, chunks_seen, yielded,
          backend_calls, prompt, stream, parked, cur, store, p_ret,
          d_pc, d_items, d_out>>

pipeVars == <<topics_in, pc, logs, valid_topics, idx, all_data, master_table,
              df, emitted, progress_calls, fetch_calls, responses,
              fetch_failed, sum_calls, sum_arg, accumulated, chunks_seen,
              yielded, backend_calls, prompt, stream>>

dedupVars == <<d_pc, d_items, d_out>>

twoVars == <<parked, cur>>

prefsVars == <<store, p_ret>>

(***************************************************************************)
(* Bounds of the model and constants of the program.                       *)
(***************************************************************************)
MaxEntries == 1     \* longest provider response enumerated exhaustively
MaxChunks == 2      \* longest backend stream
MaxItems == 3       \* longest argument of a direct call of deduplicate

SlugLen == 40       \* [:40] in deduplicate
FetchCap == 8       \* feed.entries[:8] in fetch_google_rss
HalfRange == 30     \* 0.5, in sixtieths
SynthFraction == 36 \* 0.6, in sixtieths

(***************************************************************************)
(* Sequence helpers.                                                       *)
(***************************************************************************)
Min(a, b) == IF a <= b THEN a ELSE b

Take(s, n) == SubSeq(s, 1, Min(n, Len(s)))

Range(s) == {s[i] : i \in 1..Len(s)}

IsPrefix(a, b) == Len(a) <= Len(b) /\ SubSeq(b, 1, Len(a)) = a

Repeat(c, n) == [i \in 1..n |-> c]

SeqsUpTo(S, n) == UNION {[1..k -> S] : k \in 0..n}

(***************************************************************************)
(* Characters: str.lower(), str.isalnum(), str.strip().                    *)
(***************************************************************************)
Lower(c) ==
    CASE c = "A" -> "a"
      [] c = "B" -> "b"
      [] c = "I" -> "i"
      [] OTHER -> c

IsAlnum(c) == c \in {"a", "b", "i", "x", "y", "A", "B", "I", "1"}

IsSpace(c) == c \in {" ", "\t"}

RECURSIVE LStrip(_)
LStrip(s) ==
    IF s # <<>> /\ IsSpace(Head(s)) THEN LStrip(Tail(s)) ELSE s

RECURSIVE RStrip(_)
RStrip(s) ==
    IF s # <<>> /\ IsSpace(s[Len(s)])
    THEN RStrip(SubSeq(s, 1, Len(s) - 1))
    ELSE s

Strip(s) == RStrip(LStrip(s))

(***************************************************************************)
(* NewsFetcher.deduplicate.                                                *)
(***************************************************************************)
LowerAll(s) == [i \in 1..Len(s) |-> Lower(s[i])]

RECURSIVE AlnumOnly(_)
AlnumOnly(s) ==
    IF s = <<>> THEN <<>>
    ELSE IF IsAlnum(Head(s)) THEN <<Head(s)>> \o AlnumOnly(Tail(s))
    ELSE AlnumOnly(Tail(s))

SlugCaseSensitive(title) == Take(AlnumOnly(title), SlugLen)

Slug(title) == Take(AlnumOnly(LowerAll(title)), SlugLen)

RECURSIVE DedupLoop(_, _, _)
DedupLoop(items, seen, unique) ==
    IF items = <<>> THEN unique
    ELSE LET itm == Head(items)
             slug == Slug(itm.title)
         IN IF slug \notin seen
            THEN DedupLoop(Tail(items), seen \cup {slug}, Append(unique, itm))
            ELSE DedupLoop(Tail(items), seen, unique)

StaysBeforeReversingTies(h, x) == h.published > x.published

\* list.sort(key=published, reverse=True) is stable: an element already
\* placed stays before a later one unless the later one is strictly newer.
StaysBefore(h, x) == h.published >= x.published

RECURSIVE InsertDesc(_, _)
InsertDesc(x, s) ==
    IF s = <<>> THEN <<x>>
    ELSE IF StaysBefore(Head(s), x) THEN <<Head(s)>> \o InsertDesc(x, Tail(s))
    ELSE <<x>> \o s

RECURSIVE SortDesc(_, _)
SortDesc(rest, acc) ==
    IF rest = <<>> THEN acc
    ELSE SortDesc(Tail(rest), InsertDesc(Head(rest), acc))

deduplicate(items) == SortDesc(DedupLoop(items, {}, <<>>), <<>>)

(***************************************************************************)
(* NewsFetcher.fetch_google_rss.  A provider response is what              *)
(* feedparser.parse(url) finds: feedparser reports a transport failure     *)
(* in the result (bozo) and leaves entries empty, it does not raise.       *)
(* dateutil's parser.parse raises on a string it cannot read, and nothing  *)
(* in fetch_google_rss catches it.  The query and the country only select  *)
(* the URL; the response is the environment's choice.                      *)
(***************************************************************************)
DateEarly == "Mon, 02 Nov 2026 09:00:00 GMT"
DateLate == "Mon, 02 Nov 2026 10:00:00 GMT"
DateBad == "a while ago"

Parsable(d) == d \in {DateEarly, DateLate}

ParseDate(d) ==
    CASE d = DateEarly -> 1
      [] d = DateLate -> 2

RawEntry(t, hs, s, d) ==
    [title |-> t, has_source |-> hs, source |-> s, published |-> d]

EntryA == RawEntry(<<"a">>, TRUE, "Reuters", DateEarly)
EntryB == RawEntry(<<"b">>, FALSE, "", DateLate)
EntryA2 == RawEntry(<<"A", "!">>, TRUE, "BBC", DateLate)
EntryBad == RawEntry(<<"x">>, TRUE, "BBC", DateBad)

Entries == {EntryA, EntryB}

Reachable(es) == [reachable |-> TRUE, entries |-> es]

Unreachable == [reachable |-> FALSE, entries |-> <<>>]

\* one entry more than the cap, all with different keys
LongResponse ==
    Reachable([i \in 1..(FetchCap + 1) |->
                  RawEntry(Repeat("a", i), TRUE, "Reuters", DateEarly)])

\* the cap exactly filled, followed by an entry whose date cannot be read
BadTailResponse ==
    Reachable([i \in 1..(FetchCap + 1) |->
                  IF i <= FetchCap
                  THEN RawEntry(Repeat("b", i), TRUE, "Reuters", DateLate)
                  ELSE EntryBad])

ProviderResponses ==
    {Reachable(es) : es \in SeqsUpTo(Entries, MaxEntries)}
    \cup {Reachable(<<EntryA, EntryB>>), Reachable(<<EntryA, EntryA2>>),
          Reachable(<<EntryA, EntryBad>>), Unreachable, LongResponse,
          BadTailResponse}

NewsItem(e) ==
    [title |-> e.title,
     source |-> IF e.has_source THEN e.source ELSE "Google News",
     published |-> ParseDate(e.published)]

FeedEntries(resp) == IF resp.reachable THEN resp.entries ELSE <<>>

\* [raised |-> an exception escapes, items |-> the list returned otherwise]
fetch_google_rss(resp) ==
    LET capped == Take(FeedEntries(resp), FetchCap)
    IN IF \E i \in 1..Len(capped) : ~Parsable(capped[i].published)
       THEN [raised |-> TRUE, items |-> <<>>]
       ELSE [raised |-> FALSE,
             items |-> [i \in 1..Len(capped) |-> NewsItem(capped[i])]]

(***************************************************************************)
(* The insertion-ordered dict all_data, as a sequence of key/value pairs.  *)
(***************************************************************************)
DictKeys(d) == {d[i].topic : i \in 1..Len(d)}

DictGet(d, k) == d[CHOOSE i \in 1..Len(d) : d[i].topic = k].items

DictSetKeepsFirst(d, k, v) ==
    IF k \in DictKeys(d) THEN d
    ELSE Append(d, [topic |-> k, items |-> v])

DictSetSkipsEmpty(d, k, v) ==
    IF v = <<>> THEN d
    ELSE IF k \in DictKeys(d)
    THEN [i \in 1..Len(d) |->
             IF d[i].topic = k THEN [topic |-> k, items |-> v] ELSE d[i]]
    ELSE Append(d, [topic |-> k, items |-> v])

\* all_data[topic] = clean
DictSet(d, k, v) ==
    IF k \in DictKeys(d)
    THEN [i \in 1..Len(d) |->
             IF d[i].topic = k THEN [topic |-> k, items |-> v] ELSE d[i]]
    ELSE Append(d, [topic |-> k, items |-> v])

(***************************************************************************)
(* process_all: validation, log(), rows and the yielded tuples.            *)
(***************************************************************************)
TruthyUnstripped(t) == t # <<>>

\* t and t.strip()
Truthy(t) == t # <<>> /\ Strip(t) # <<>>

RECURSIVE FilterValid(_)
FilterValid(ts) ==
    IF ts = <<>> THEN <<>>
    ELSE IF Truthy(Head(ts)) THEN <<Head(ts)>> \o FilterValid(Tail(ts))
    ELSE FilterValid(Tail(ts))

LogLine(m, n, t) == [msg |-> m, n |-> n, topic |-> t]

Log(ls, line) == Append(ls, line)

Row(topic, itm) ==
    [Topic |-> topic, Source |-> itm.source, Title |-> itm.title]

Rows(topic, clean) == [i \in 1..Len(clean) |-> Row(topic, clean[i])]

NoUpdate == [set |-> FALSE, text |-> <<>>]

Text(t) == [set |-> TRUE, text |-> t]

Snapshot(k, s, l, t, sel) ==
    [kind |-> k, summary |-> s, log |-> l, table |-> t, tab |-> sel]

AbortSnapshot(ls) ==
    Snapshot("abort", Text(<<"Please enter at least one topic.">>), ls,
             <<>>, "0")

InitSnapshot(ls) ==
    Snapshot("init", Text(<<"Initializing scan...">>), ls, <<>>, "1")

ScanSnapshotShowingRows(ls, table) ==
    Snapshot("scan", NoUpdate, ls, table, "unchanged")

\* yield gr.update(), log(...), pd.DataFrame(), gr.update()
ScanSnapshot(ls, table) ==
    Snapshot("scan", NoUpdate, ls, <<>>, "unchanged")

SummarySnapshot(summary, ls, table) ==
    Snapshot("summary", Text(summary), ls, table, "unchanged")

SuccessSnapshotSetsSummary(ls, table) ==
    Snapshot("success", Text(<<>>), ls, table, "unchanged")

SuccessSnapshotEmptyTable(ls, table) ==
    Snapshot("success", NoUpdate, ls, <<>>, "unchanged")

SuccessSnapshot(ls, table) ==
    Snapshot("success", NoUpdate, ls, table, "unchanged")

ThinkingLine == LogLine("AI is thinking...", 0, <<>>)

SuccessLine == LogLine("Success. Intelligence briefing ready.", 0, <<>>)

(***************************************************************************)
(* GeminiAgent.summarize: prompt data lines and texts.                     *)
(***************************************************************************)
NoDataText == <<"No data gathered.">>

ErrorText(e) == <<"Error: ">> \o e

ExceptionTexts == {<<"quota exceeded">>}

ChunkTexts == {<<>>, <<"x">>, <<"y">>}

PromptLine(k, t, s) == [line |-> k, text |-> t, source |-> s]

TopicLines(entry) ==
    <<PromptLine("header", entry.topic, "")>>
    \o [i \in 1..Len(entry.items) |->
           PromptLine("item", entry.items[i].title, entry.items[i].source)]

RECURSIVE ContextLines(_)
ContextLines(d) ==
    IF d = <<>> THEN <<>>
    ELSE TopicLines(Head(d)) \o ContextLines(Tail(d))

(***************************************************************************)
(* Initial states.                                                         *)
(***************************************************************************)
TopicInputs == {<<>>, <<" ">>, <<"A">>, <<"B">>}

PipeIdle ==
    /\ pc = "start"
    /\ logs = <<>>
    /\ valid_topics = <<>>
    /\ idx = 0
    /\ all_data = <<>>
    /\ master_table = <<>>
    /\ df = <<>>
    /\ emitted = <<>>
    /\ progress_calls = <<>>
    /\ fetch_calls = 0
    /\ responses = <<>>
    /\ fetch_failed = FALSE
    /\ sum_calls = 0
    /\ sum_arg = <<>>
    /\ accumulated = <<>>
    /\ chunks_seen = 0
    /\ yielded = <<>>
    /\ backend_calls = 0
    /\ prompt = <<>>
    /\ stream = <<>>

DedupIdle ==
    /\ d_pc = "idle"
    /\ d_items = <<>>
    /\ d_out = <<>>

\* the frame of a process_all generator: its arguments, position and
\* locals, the locals of the summarize generator it pulls from, and what
\* has been observed of it
Frame(t, p, ls, vt, i, ad, mt, d, em, pr, fc, rs, ff, sc, sa, ac, cs, ys, bc, pm, st) ==
    [topics_in |-> t, pc |-> p, logs |-> ls, valid_topics |-> vt, idx |-> i,
     all_data |-> ad, master_table |-> mt, df |-> d, emitted |-> em,
     progress_calls |-> pr, fetch_calls |-> fc, responses |-> rs,
     fetch_failed |-> ff, sum_calls |-> sc, sum_arg |-> sa,
     accumulated |-> ac, chunks_seen |-> cs, yielded |-> ys,
     backend_calls |-> bc, prompt |-> pm, stream |-> st]

NewFrame(t) ==
    Frame(t, "start", <<>>, <<>>, 0, <<>>, <<>>, <<>>, <<>>, <<>>, 0, <<>>,
          FALSE, 0, <<>>, <<>>, 0, <<>>, 0, <<>>, <<>>)

NoTopics == [i \in 1..3 |-> <<>>]

TwoIdle ==
    /\ parked = NewFrame(NoTopics)
    /\ cur = 1

NoPrefs == [topics |-> <<>>, country |-> "", last_updated |-> ""]

NoCall ==
    [op |-> "none", cause |-> "none", raised |-> FALSE, prefs |-> NoPrefs,
     msg |-> ""]

PrefsIdle ==
    /\ store = [state |-> "absent", record |-> NoPrefs]
    /\ p_ret = NoCall

Init ==
    /\ topics_in \in [1..3 -> TopicInputs]
    /\ PipeIdle
    /\ DedupIdle
    /\ TwoIdle
    /\ PrefsIdle

(***************************************************************************)
(* process_all, one action per stretch of code.                            *)
(***************************************************************************)
Validate ==
    /\ pc = "start"
    /\ LET valid == FilterValid(topics_in)
       IN IF valid = <<>>
          THEN LET ls == Log(logs, LogLine("Aborted: No topics entered.",
                                           0, <<>>))
               IN /\ logs' = ls
                  /\ emitted' = Append(emitted, AbortSnapshot(ls))
                  /\ pc' = "done"
                  /\ UNCHANGED valid_topics
          ELSE LET ls == Log(logs, LogLine("Starting analysis", Len(valid),
                                           <<>>))
               IN /\ logs' = ls
                  /\ emitted' = Append(emitted, InitSnapshot(ls))
                  /\ valid_topics' = valid
                  /\ pc' = "scan"
    /\ UNCHANGED <<stream, topics_in, idx, all_data, master_table, df,
                   progress_calls, fetch_calls, responses, fetch_failed,
                   sum_calls, sum_arg, accumulated, chunks_seen, yielded,
                   backend_calls, prompt>>
    /\ UNCHANGED <<dedupVars, twoVars, prefsVars>>

ScanFractionFromOne(i, n) == ((i + 1) * HalfRange) \div n

\* (idx/len(valid_topics)) * 0.5, in sixtieths
ScanFraction(i, n) == (i * HalfRange) \div n

Scan ==
    /\ pc = "scan"
    /\ LET topic == valid_topics[idx + 1]
           ls == Log(logs, LogLine("Fetching RSS for", 0, topic))
       IN /\ progress_calls' =
                 Append(progress_calls, ScanFraction(idx, Len(valid_topics)))
          /\ logs' = ls
          /\ emitted' = Append(emitted, ScanSnapshot(ls, master_table))
    /\ pc' = "fetch"
    /\ UNCHANGED <<stream, topics_in, valid_topics, idx, all_data, master_table, df,
                   fetch_calls, responses, fetch_failed, sum_calls, sum_arg,
                   accumulated, chunks_seen, yielded, backend_calls, prompt>>
    /\ UNCHANGED <<dedupVars, twoVars, prefsVars>>

Fetch(resp) ==
    /\ pc = "fetch"
    /\ fetch_calls' = fetch_calls + 1
    /\ responses' = Append(responses, resp)
    /\ LET topic == valid_topics[idx + 1]
           raw == fetch_google_rss(resp)
           clean == deduplicate(raw.items)
       IN /\ fetch_failed' = (fetch_failed \/ raw.raised \/ ~resp.reachable)
          /\ IF raw.raised
             THEN /\ pc' = "raised"
                  /\ UNCHANGED <<all_data, master_table, idx>>
             ELSE /\ all_data' = DictSet(all_data, topic, clean)
                  /\ master_table' = master_table \o Rows(topic, clean)
                  /\ idx' = idx + 1
                  /\ pc' = IF idx + 1 < Len(valid_topics)
                           THEN "scan" ELSE "aggregate"
    /\ UNCHANGED <<stream, topics_in, logs, valid_topics, df, emitted,
                   progress_calls, sum_calls, sum_arg, accumulated,
                   chunks_seen, yielded, backend_calls, prompt>>
    /\ UNCHANGED <<dedupVars, twoVars, prefsVars>>

Aggregate ==
    /\ pc = "aggregate"
    /\ df' = master_table
    /\ progress_calls' = Append(progress_calls, SynthFraction)
    /\ sum_calls' = sum_calls + 1
    /\ sum_arg' = all_data
    /\ pc' = "sum_begin"
    /\ UNCHANGED <<stream, topics_in, logs, valid_topics, idx, all_data,
                   master_table, emitted, fetch_calls, responses,
                   fetch_failed, accumulated, chunks_seen, yielded,
                   backend_calls, prompt>>
    /\ UNCHANGED <<dedupVars, twoVars, prefsVars>>

NoDataNever(d) == FALSE

\* if not all_topics_data
NoData(d) == d = <<>>

\* what process_all does with one text that summarize yields
YieldSummary(summary) ==
    LET ls == Log(logs, ThinkingLine)
    IN /\ yielded' = Append(yielded, summary)
       /\ logs' = ls
       /\ emitted' = Append(emitted, SummarySnapshot(summary, ls, df))

\* the first pull on the generator: the no-data branch, or the prompt and
\* the call of the backend, which returns a stream (ok) or raises e
SummarizeStart(ok, e) ==
    /\ pc = "sum_begin"
    /\ IF NoData(sum_arg)
       THEN /\ YieldSummary(NoDataText)
            /\ pc' = "sum_last"
            /\ UNCHANGED <<prompt, backend_calls, accumulated>>
       ELSE /\ prompt' = ContextLines(sum_arg)
            /\ backend_calls' = backend_calls + 1
            /\ IF ok
               THEN /\ accumulated' = <<>>
                    /\ pc' = "stream"
                    /\ UNCHANGED <<yielded, logs, emitted>>
               ELSE /\ YieldSummary(ErrorText(e))
                    /\ pc' = "sum_last"
                    /\ UNCHANGED accumulated
    /\ UNCHANGED <<stream, topics_in, valid_topics, idx, all_data, master_table, df,
                   progress_calls, fetch_calls, responses, fetch_failed,
                   sum_calls, sum_arg, chunks_seen>>
    /\ UNCHANGED <<dedupVars, twoVars, prefsVars>>

\* accumulated += chunk.text
Accumulate(acc, text) == acc \o text

StreamChunk(text) ==
    /\ pc = "stream"
    /\ chunks_seen < MaxChunks
    /\ chunks_seen' = chunks_seen + 1
    /\ stream' = Append(stream, text)
    /\ IF text # <<>>
       THEN /\ accumulated' = Accumulate(accumulated, text)
            /\ YieldSummary(accumulated')
       ELSE UNCHANGED <<accumulated, yielded, logs, emitted>>
    /\ UNCHANGED <<topics_in, pc, valid_topics, idx, all_data, master_table,
                   df, progress_calls, fetch_calls, responses, fetch_failed,
                   sum_calls, sum_arg, backend_calls, prompt>>
    /\ UNCHANGED <<dedupVars, twoVars, prefsVars>>

StreamRaises(e) ==
    /\ pc = "stream"
    /\ YieldSummary(ErrorText(e))
    /\ pc' = "sum_last"
    /\ UNCHANGED <<stream, topics_in, valid_topics, idx, all_data, master_table, df,
                   progress_calls, fetch_calls, responses, fetch_failed,
                   sum_calls, sum_arg, accumulated, chunks_seen,
                   backend_calls, prompt>>
    /\ UNCHANGED <<dedupVars, twoVars, prefsVars>>

\* the summary stream is exhausted: the for loop ends and line 387 yields
Finish ==
    /\ pc \in {"stream", "sum_last"}
    /\ LET ls == Log(logs, SuccessLine)
       IN /\ logs' = ls
          /\ emitted' = Append(emitted, SuccessSnapshot(ls, df))
    /\ pc' = "done"
    /\ UNCHANGED <<stream, topics_in, valid_topics, idx, all_data, master_table, df,
                   progress_calls, fetch_calls, responses, fetch_failed,
                   sum_calls, sum_arg, accumulated, chunks_seen, yielded,
                   backend_calls, prompt>>
    /\ UNCHANGED <<dedupVars, twoVars, prefsVars>>

Next ==
    \/ Validate
    \/ Scan
    \/ \E resp \in ProviderResponses : Fetch(resp)
    \/ Aggregate
    \/ \E ok \in BOOLEAN, e \in ExceptionTexts : SummarizeStart(ok, e)
    \/ \E text \in ChunkTexts : StreamChunk(text)
    \/ \E e \in ExceptionTexts : StreamRaises(e)
    \/ Finish

Spec == Init /\ [][Next]_vars

\* the runs over one topic name, blank or not in each of the three places
LiveTopicInputs == {<<>>, <<" ">>, <<"A">>}

InitLive ==
    /\ topics_in \in [1..3 -> LiveTopicInputs]
    /\ PipeIdle
    /\ DedupIdle
    /\ TwoIdle
    /\ PrefsIdle

\* the observer pulls from the generator until it is exhausted
SpecLive == InitLive /\ [][Next]_vars /\ WF_vars(Next)

(***************************************************************************)
(* Two runs: an observer pulls from two process_all generators in any      *)
(* order.  Each generator keeps its arguments and locals (logs, all_data,  *)
(* master_table, df, and accumulated of the summarize generator it owns)   *)
(* in its own frame.  The module-level fetcher, agent and prefs_mgr are    *)
(* shared, and process_all changes no attribute of them.                   *)
(***************************************************************************)
LogsSharedByRuns(own, live) == live

\* logs = [] is a local of process_all: a resumed generator finds its own
LogsOnResume(own, live) == own

CurrentFrame ==
    Frame(topics_in, pc, logs, valid_topics, idx, all_data, master_table, df,
          emitted, progress_calls, fetch_calls, responses, fetch_failed,
          sum_calls, sum_arg, accumulated, chunks_seen, yielded,
          backend_calls, prompt, stream)

\* the observer turns to the other generator
Switch ==
    /\ parked' = CurrentFrame
    /\ cur' = 3 - cur
    /\ topics_in' = parked.topics_in
    /\ pc' = parked.pc
    /\ logs' = LogsOnResume(parked.logs, logs)
    /\ valid_topics' = parked.valid_topics
    /\ idx' = parked.idx
    /\ all_data' = parked.all_data
    /\ master_table' = parked.master_table
    /\ df' = parked.df
    /\ emitted' = parked.emitted
    /\ progress_calls' = parked.progress_calls
    /\ fetch_calls' = parked.fetch_calls
    /\ responses' = parked.responses
    /\ fetch_failed' = parked.fetch_failed
    /\ sum_calls' = parked.sum_calls
    /\ sum_arg' = parked.sum_arg
    /\ accumulated' = parked.accumulated
    /\ chunks_seen' = parked.chunks_seen
    /\ yielded' = parked.yielded
    /\ backend_calls' = parked.backend_calls
    /\ prompt' = parked.prompt
    /\ stream' = parked.stream
    /\ UNCHANGED <<dedupVars, prefsVars>>

TwoRunTopics == {<<<<"A">>, <<>>, <<>>>>, <<<<"B">>, <<" ">>, <<"A">>>>}

TwoRunResponses ==
    {Reachable(<<EntryA>>), Reachable(<<EntryB, EntryA>>),
     Reachable(<<EntryA, EntryBad>>)}

TwoRunChunks == {<<"x">>, <<"y">>}

InitTwo ==
    /\ topics_in \in TwoRunTopics
    /\ PipeIdle
    /\ parked \in {NewFrame(t) : t \in TwoRunTopics}
    /\ cur = 1
    /\ DedupIdle
    /\ PrefsIdle

NextTwo ==
    \/ Validate
    \/ Scan
    \/ \E resp \in TwoRunResponses : Fetch(resp)
    \/ Aggregate
    \/ \E ok \in BOOLEAN, e \in ExceptionTexts : SummarizeStart(ok, e)
    \/ \E text \in TwoRunChunks : StreamChunk(text)
    \/ \E e \in ExceptionTexts : StreamRaises(e)
    \/ Finish
    \/ Switch

SpecTwo == InitTwo /\ [][NextTwo]_vars

(***************************************************************************)
(* PersistenceManager.  The store holds no record, a record, or a file     *)
(* that is not JSON; whether it can be reached, whether config.json can    *)
(* be written locally and whether the upload succeeds are the              *)
(* environment's choice at each call.  CONFIG_REPO_ID is an f-string that  *)
(* ends in "/user-preferences", so it is never empty.                      *)
(***************************************************************************)
ConfigRepoId == <<"USER_NAME", "/user-preferences">>

DefaultPrefs ==
    [topics |-> <<"Artificial Intelligence", "Space Exploration",
                  "Quantum Computing">>,
     country |-> "IN", last_updated |-> ""]

Returned(op, cause, prefs, msg) ==
    [op |-> op, cause |-> cause, raised |-> FALSE, prefs |-> prefs,
     msg |-> msg]

Escaped(op, cause) ==
    [op |-> op, cause |-> cause, raised |-> TRUE, prefs |-> NoPrefs,
     msg |-> ""]

\* the outcome of load_prefs when the store can (not) be reached
load_prefs(reachable) ==
    IF ConfigRepoId = <<>> THEN Returned("load", "unconfigured",
                                         DefaultPrefs, "")
    ELSE IF ~reachable THEN Returned("load", "unreachable", DefaultPrefs, "")
    ELSE IF store.state = "absent"
    THEN Returned("load", "absent", DefaultPrefs, "")
    ELSE IF store.state = "corrupt"
    THEN Returned("load", "corrupt", DefaultPrefs, "")
    ELSE Returned("load", "none", store.record, "")

LoadPrefs(reachable) ==
    /\ p_ret' = load_prefs(reachable)
    /\ UNCHANGED store
    /\ UNCHANGED <<pipeVars, dedupVars, twoVars>>

SavePrefs(topics, country, writable, uploads) ==
    /\ IF ConfigRepoId = <<>>
       THEN /\ p_ret' = Returned("save", "unconfigured", NoPrefs,
                                 "Persistence not configured.")
            /\ UNCHANGED store
       ELSE LET data == [topics |-> topics, country |-> country,
                         last_updated |-> "now"]
            IN IF ~writable
               THEN /\ p_ret' = Escaped("save", "write")
                    /\ UNCHANGED store
               ELSE IF uploads
               THEN /\ store' = [state |-> "present", record |-> data]
                    /\ p_ret' = Returned("save", "none", NoPrefs,
                                         "Saved to Cloud.")
               ELSE /\ p_ret' = Returned("save", "upload", NoPrefs,
                                         "Save failed: upload error")
                    /\ UNCHANGED store
    /\ UNCHANGED <<pipeVars, dedupVars, twoVars>>

\* something other than the application puts a non-JSON file in the store
StoreCorrupted ==
    /\ store.state # "corrupt"
    /\ store' = [state |-> "corrupt", record |-> NoPrefs]
    /\ UNCHANGED p_ret
    /\ UNCHANGED <<pipeVars, dedupVars, twoVars>>

Countries == {"US", "IN"}

SavedTopics == {<<>>, <<"A">>, <<"B">>}

InitPrefs ==
    /\ topics_in = NoTopics
    /\ PipeIdle
    /\ DedupIdle
    /\ TwoIdle
    /\ PrefsIdle

NextPrefs ==
    \/ \E reachable \in BOOLEAN : LoadPrefs(reachable)
    \/ \E ts \in [1..3 -> SavedTopics], c \in Countries,
          writable \in BOOLEAN, uploads \in BOOLEAN :
          SavePrefs(ts, c, writable, uploads)
    \/ StoreCorrupted

SpecPrefs == InitPrefs /\ [][NextPrefs]_vars

(***************************************************************************)
(* A direct call of GeminiAgent.summarize, its generator pulled until it   *)
(* is exhausted.                                                           *)
(***************************************************************************)
DirectMappings ==
    {<<>>,
     <<[topic |-> <<"A">>, items |-> <<>>]>>,
     <<[topic |-> <<"A">>, items |-> <<NewsItem(EntryA)>>]>>,
     <<[topic |-> <<"A">>, items |-> <<NewsItem(EntryA)>>],
       [topic |-> <<"B">>, items |-> <<NewsItem(EntryB), NewsItem(EntryA)>>]>>}

InitSummarize ==
    /\ topics_in = NoTopics
    /\ pc = "call_begin"
    /\ logs = <<>>
    /\ valid_topics = <<>>
    /\ idx = 0
    /\ all_data = <<>>
    /\ master_table = <<>>
    /\ df = <<>>
    /\ emitted = <<>>
    /\ progress_calls = <<>>
    /\ fetch_calls = 0
    /\ responses = <<>>
    /\ fetch_failed = FALSE
    /\ sum_calls = 1
    /\ sum_arg \in DirectMappings
    /\ accumulated = <<>>
    /\ chunks_seen = 0
    /\ yielded = <<>>
    /\ backend_calls = 0
    /\ prompt = <<>>
    /\ stream = <<>>
    /\ DedupIdle
    /\ TwoIdle
    /\ PrefsIdle

callFrame == <<topics_in, logs, valid_topics, idx, all_data, master_table, df,
               emitted, progress_calls, fetch_calls, responses, fetch_failed,
               sum_calls, sum_arg>>

CallStart(ok, e) ==
    /\ pc = "call_begin"
    /\ IF NoData(sum_arg)
       THEN /\ yielded' = Append(yielded, NoDataText)
            /\ pc' = "call_last"
            /\ UNCHANGED <<prompt, backend_calls, accumulated>>
       ELSE /\ prompt' = ContextLines(sum_arg)
            /\ backend_calls' = backend_calls + 1
            /\ IF ok
               THEN /\ accumulated' = <<>>
                    /\ pc' = "call_stream"
                    /\ UNCHANGED yielded
               ELSE /\ yielded' = Append(yielded, ErrorText(e))
                    /\ pc' = "call_last"
                    /\ UNCHANGED accumulated
    /\ UNCHANGED <<chunks_seen, stream>>
    /\ UNCHANGED callFrame
    /\ UNCHANGED <<dedupVars, twoVars, prefsVars>>

CallChunk(text) ==
    /\ pc = "call_stream"
    /\ chunks_seen < MaxChunks
    /\ chunks_seen' = chunks_seen + 1
    /\ stream' = Append(stream, text)
    /\ IF text # <<>>
       THEN /\ accumulated' = Accumulate(accumulated, text)
            /\ yielded' = Append(yielded, accumulated')
       ELSE UNCHANGED <<accumulated, yielded>>
    /\ UNCHANGED <<pc, backend_calls, prompt>>
    /\ UNCHANGED callFrame
    /\ UNCHANGED <<dedupVars, twoVars, prefsVars>>

CallRaises(e) ==
    /\ pc = "call_stream"
    /\ yielded' = Append(yielded, ErrorText(e))
    /\ pc' = "call_last"
    /\ UNCHANGED <<accumulated, chunks_seen, stream, backend_calls, prompt>>
    /\ UNCHANGED callFrame
    /\ UNCHANGED <<dedupVars, twoVars, prefsVars>>

\* the generator returns: the stream is over, or the last yield was final
CallEnd ==
    /\ pc \in {"call_stream", "call_last"}
    /\ pc' = "call_end"
    /\ UNCHANGED <<accumulated, chunks_seen, stream, yielded, backend_calls,
                   prompt>>
    /\ UNCHANGED callFrame
    /\ UNCHANGED <<dedupVars, twoVars, prefsVars>>

NextSummarize ==
    \/ \E ok \in BOOLEAN, e \in ExceptionTexts : CallStart(ok, e)
    \/ \E text \in ChunkTexts : CallChunk(text)
    \/ \E e \in ExceptionTexts : CallRaises(e)
    \/ CallEnd

SpecSummarize == InitSummarize /\ [][NextSummarize]_vars

(***************************************************************************)
(* A direct call of deduplicate on an arbitrary list of items.             *)
(***************************************************************************)
LongTitle(n, c) == Repeat("a", n) \o <<c>>

DedupTitles ==
    {<<"A", "I", "!">>, <<"a", " ", "i">>, <<"b">>,
     LongTitle(SlugLen, "x"), LongTitle(SlugLen, "y"),
     LongTitle(SlugLen - 1, "x"), LongTitle(SlugLen - 1, "y")}

DedupItems ==
    {[title |-> t, source |-> "Reuters", published |-> p] :
        t \in DedupTitles, p \in {1, 2}}

InitDedup ==
    /\ topics_in = NoTopics
    /\ PipeIdle
    /\ d_pc = "call"
    /\ d_items \in SeqsUpTo(DedupItems, MaxItems)
    /\ d_out = <<>>
    /\ TwoIdle
    /\ PrefsIdle

DedupCall ==
    /\ d_pc = "call"
    /\ d_out' = deduplicate(d_items)
    /\ d_pc' = "returned"
    /\ UNCHANGED d_items
    /\ UNCHANGED <<pipeVars, twoVars, prefsVars>>

NextDedup == DedupCall

SpecDedup == InitDedup /\ [][NextDedup]_vars

(***************************************************************************)
(* Vocabulary of the properties, stated without the operators they judge.  *)
(***************************************************************************)
\* the deduplication key: title lowercased, non-alphanumeric characters
\* removed, the first 40 characters
DedupKey(title) ==
    LET kept == SelectSeq([i \in 1..Len(title) |-> Lower(title[i])], IsAlnum)
    IN SubSeq(kept, 1, IF Len(kept) < SlugLen THEN Len(kept) ELSE SlugLen)

\* position of the first element of s for which P holds
FirstIndex(s, P(_)) ==
    CHOOSE i \in 1..Len(s) : P(s[i]) /\ \A j \in 1..(i - 1) : ~P(s[j])

LastIndex(s, P(_)) ==
    CHOOSE i \in 1..Len(s) : P(s[i]) /\ \A j \in (i + 1)..Len(s) : ~P(s[j])

Blank(t) == \A i \in 1..Len(t) : IsSpace(t[i])

RequestedTopics == {topics_in[i] : i \in {j \in 1..3 : ~Blank(topics_in[j])}}

LastSnapshot == emitted[Len(emitted)]

(***************************************************************************)
(* C1: deduplicate returns no two items with the same deduplication key,   *)
(* and for every key of the input the item it keeps is the first item of   *)
(* the input with that key.                                                *)
(***************************************************************************)
DedupKeepsFirstOfEachKey ==
    d_pc = "returned" =>
        /\ \A i, j \in 1..Len(d_out) :
              i # j => DedupKey(d_out[i].title) # DedupKey(d_out[j].title)
        /\ \A n \in 1..Len(d_items) :
              LET SameKey(x) ==
                      DedupKey(x.title) = DedupKey(d_items[n].title)
              IN \E i \in 1..Len(d_out) :
                    /\ SameKey(d_out[i])
                    /\ d_out[i] = d_items[FirstIndex(d_items, SameKey)]

\* a call that dropped an item whose title differs from the kept one and
\* whose key is equal only because of the truncation
DedupDroppedTruncatedTwin ==
    /\ d_pc = "returned"
    /\ Len(d_out) >= 2
    /\ \E i, j \in 1..Len(d_items) :
          /\ i < j
          /\ d_items[i].title # d_items[j].title
          /\ Len(d_items[i].title) > SlugLen
          /\ DedupKey(d_items[i].title) = DedupKey(d_items[j].title)
          /\ d_items[j] \notin Range(d_out)

(***************************************************************************)
(* C2: the output of deduplicate is ordered by published descending, and   *)
(* two survivors with equal published keep their order of the input.       *)
(***************************************************************************)
DedupSortedDescStable ==
    d_pc = "returned" =>
        \A i, j \in 1..Len(d_out) :
            i < j =>
                /\ d_out[i].published >= d_out[j].published
                /\ d_out[i].published = d_out[j].published =>
                      LET IsI(x) == x = d_out[i]
                          IsJ(x) == x = d_out[j]
                      IN FirstIndex(d_items, IsI) < FirstIndex(d_items, IsJ)

\* a call whose sort moved a newer item ahead of an older one and also
\* returned two items of equal published
DedupSortedWithTie ==
    /\ d_pc = "returned"
    /\ \E i, j \in 1..Len(d_out) :
          /\ i < j
          /\ d_out[i].published = d_out[j].published
    /\ \E i, j \in 1..Len(d_out) :
          LET IsI(x) == x = d_out[i]
              IsJ(x) == x = d_out[j]
          IN /\ i < j
             /\ d_out[i].published > d_out[j].published
             /\ FirstIndex(d_items, IsI) > FirstIndex(d_items, IsJ)

(***************************************************************************)
(* C3: of two consecutive yielded tuples, every row of the table of the    *)
(* first is a row of the table of the second.                              *)
(***************************************************************************)
MonotonicVisibility ==
    \A k \in 1..(Len(emitted) - 1) :
        Range(emitted[k].table) \subseteq Range(emitted[k + 1].table)

\* a tuple with rows has been followed by another tuple
RowsShownThenFollowed ==
    \E k \in 1..(Len(emitted) - 1) : emitted[k].table # <<>>

(***************************************************************************)
(* C4 as stated: the tuple yielded before the fetch of a topic carries     *)
(* the rows of every topic processed before it.                            *)
(***************************************************************************)
RowsVisibleBeforeNextTopic ==
    pc = "fetch" => Range(master_table) \subseteq Range(LastSnapshot.table)

(***************************************************************************)
(* C4 amended: the tuple yielded before each fetch carries an empty        *)
(* table, whatever has been processed; a table with rows is yielded only   *)
(* once every topic has been processed, and it is then the whole table.    *)
(***************************************************************************)
RowsVisibleOnlyAfterLastTopic ==
    /\ pc = "fetch" => LastSnapshot.table = <<>>
    /\ \A k \in 1..Len(emitted) :
          emitted[k].table # <<>> =>
              /\ idx = Len(valid_topics)
              /\ emitted[k].table = master_table

\* about to fetch a later topic while rows of an earlier one are held
FetchingWithRowsHeld ==
    /\ pc = "fetch"
    /\ idx >= 1
    /\ master_table # <<>>

(***************************************************************************)
(* C5 as stated: every yielded table lists the rows of an earlier topic    *)
(* before those of a later topic, and the rows of one topic are that       *)
(* topic's deduplicated result in its order.  Stated for the runs in       *)
(* which the provider answered every fetch.                                *)
(***************************************************************************)
TableGroupedInTopicOrder ==
    \A k \in 1..Len(emitted) :
        LET table == emitted[k].table
            Pos(t) == LET Is(x) == x = t IN FirstIndex(valid_topics, Is)
        IN (~fetch_failed /\ table # <<>>) =>
              /\ \A i, j \in 1..Len(table) :
                    i < j => Pos(table[i].Topic) <= Pos(table[j].Topic)
              /\ \A t \in Range(valid_topics) :
                    LET OfTopic(r) == r.Topic = t
                    IN SelectSeq(table, OfTopic)
                           = Rows(t, DictGet(all_data, t))

(***************************************************************************)
(* C6 as stated: once all topics are processed, for every topic of the     *)
(* mapping passed to summarize, the number of rows of the final table      *)
(* with that topic is the length of the topic's result.  Stated for the    *)
(* runs in which the provider answered every fetch.                        *)
(***************************************************************************)
RowCountEqualsResultLength ==
    (~fetch_failed /\ sum_calls >= 1) =>
        \A t \in DictKeys(sum_arg) :
            Cardinality({i \in 1..Len(df) : df[i].Topic = t})
                = Len(DictGet(sum_arg, t))

(***************************************************************************)
(* C7: when the three topics are all empty or whitespace-only, the run     *)
(* yields exactly one tuple, the message with an empty table, and ends;    *)
(* neither the fetch nor summarize nor the backend is ever called.         *)
(***************************************************************************)
NoTopicsSingleSnapshot ==
    (\A i \in 1..3 : Blank(topics_in[i])) =>
        /\ pc \in {"start", "done"}
        /\ fetch_calls = 0
        /\ sum_calls = 0
        /\ backend_calls = 0
        /\ Len(emitted) = IF pc = "done" THEN 1 ELSE 0
        /\ pc = "done" =>
              /\ emitted[1].summary.set
              /\ emitted[1].summary.text
                     = <<"Please enter at least one topic.">>
              /\ emitted[1].table = <<>>

\* a run over blank topics, one of them whitespace, has ended
BlankRunEnded ==
    /\ \A i \in 1..3 : Blank(topics_in[i])
    /\ \E i \in 1..3 : topics_in[i] # <<>>
    /\ pc = "done"

(***************************************************************************)
(* C8 as stated: once a fetch has met an unreachable provider or has       *)
(* failed otherwise, the run is over: summarize is never called, no later  *)
(* topic is fetched, no table with rows and no success tuple is yielded.   *)
(***************************************************************************)
FetchFailureEndsRun ==
    fetch_failed =>
        /\ pc = "raised"
        /\ sum_calls = 0
        /\ \A k \in 1..Len(emitted) :
              /\ emitted[k].table = <<>>
              /\ emitted[k].kind # "success"

(***************************************************************************)
(* C9: summarize is called at most once, and only when every validated     *)
(* topic has been fetched and deduplicated (so no fetch follows it); its   *)
(* argument has exactly the validated topics as keys, each with the        *)
(* deduplicated result of that topic's (last) fetch.                       *)
(***************************************************************************)
SummarizeOnceAfterAllTopics ==
    /\ sum_calls <= 1
    /\ fetch_calls <= Len(valid_topics)
    /\ sum_calls = 1 =>
          /\ fetch_calls = Len(valid_topics)
          /\ pc \in {"sum_begin", "stream", "sum_last", "done"}
          /\ DictKeys(sum_arg) = RequestedTopics
          /\ Len(sum_arg) = Cardinality(RequestedTopics)
          /\ \A t \in RequestedTopics :
                LET Is(x) == x = t
                    resp == responses[LastIndex(valid_topics, Is)]
                    capped == SubSeq(FeedEntries(resp), 1,
                                     Min(FetchCap, Len(FeedEntries(resp))))
                IN DictGet(sum_arg, t)
                       = deduplicate([i \in 1..Len(capped) |->
                                         NewsItem(capped[i])])

\* summarize was called for several topics, one named twice, with results
SummarizeCalledWithRepeatedTopic ==
    /\ sum_calls = 1
    /\ Len(valid_topics) = 3
    /\ Cardinality(RequestedTopics) = 2
    /\ \A t \in RequestedTopics : DictGet(sum_arg, t) # <<>>

(***************************************************************************)
(* C10 as stated: every text summarize yields after the first has the      *)
(* text yielded before it as a prefix.  Stated for the calls made in runs  *)
(* in which the provider answered every fetch.                             *)
(***************************************************************************)
YieldedTextsExtend ==
    ~fetch_failed =>
        \A k \in 1..(Len(yielded) - 1) :
            IsPrefix(yielded[k], yielded[k + 1])

(***************************************************************************)
(* C11 as stated: when the backend fails, at the call or while the stream  *)
(* is read, summarize yields exactly one item, the error text, and ends    *)
(* without calling the backend again.  Stated for the calls made in runs   *)
(* in which the provider answered every fetch.                             *)
(***************************************************************************)
BackendFailureYieldsOnlyError ==
    (~fetch_failed /\ pc = "sum_last" /\ sum_arg # <<>>) =>
        /\ backend_calls = 1
        /\ \E e \in ExceptionTexts : yielded = <<ErrorText(e)>>

(***************************************************************************)
(* C12 as stated: the tuple that carries the backend's error text is the   *)
(* last tuple of the run and the only one that sets a summary text after   *)
(* the fetching, and its table is the table gathered before summarizing.   *)
(* Stated for the runs in which the provider answered every fetch.         *)
(***************************************************************************)
ErrorIsSoleFinalSummary ==
    \A k \in 1..Len(emitted) :
        (/\ ~fetch_failed
         /\ emitted[k].kind = "summary"
         /\ \E e \in ExceptionTexts : emitted[k].summary.text = ErrorText(e))
        => /\ k = Len(emitted)
           /\ \A j \in 1..Len(emitted) :
                 j # k => emitted[j].kind \notin {"summary", "success"}
           /\ emitted[k].table = master_table

(***************************************************************************)
(* C15 as stated: every fetch returns at most 8 items, and no topic has    *)
(* more than 8 rows in the aggregate table.  Stated for the runs in which  *)
(* the provider answered every fetch.                                      *)
(***************************************************************************)
FetchCapBoundsTopicRows ==
    ~fetch_failed =>
        /\ \A i \in 1..Len(responses) :
              Len(fetch_google_rss(responses[i]).items) <= FetchCap
        /\ \A t \in Range(valid_topics) :
              Cardinality({i \in 1..Len(master_table) :
                              master_table[i].Topic = t}) <= FetchCap

(***************************************************************************)
(* C18 as stated: a reachable response in which one entry has a date that  *)
(* cannot be parsed does not make the fetch fail: the run goes on and the  *)
(* topic's result is made of the other entries.                            *)
(***************************************************************************)
UnparsableEntryIsSkipped ==
    \A i \in 1..Len(responses) :
        LET es == responses[i].entries
            good == SelectSeq(SubSeq(es, 1, Min(FetchCap, Len(es))),
                              LAMBDA e : Parsable(e.published))
        IN (responses[i].reachable /\ Len(good) < Min(FetchCap, Len(es))) =>
              /\ pc # "raised"
              /\ i <= idx
              /\ i = Len(responses) =>
                    DictGet(all_data, valid_topics[i])
                        = deduplicate([j \in 1..Len(good) |->
                                          NewsItem(good[j])])

PipelineNeverSummarizesNothing ==
    /\ sum_calls = 1 => sum_arg # <<>>
    /\ NoDataText \notin Range(yielded)
    /\ \A k \in 1..Len(emitted) : emitted[k].summary.text # NoDataText
    /\ (pc \in {"stream", "sum_last", "done"} /\ sum_calls = 1) =>
          /\ backend_calls = 1
          /\ Len(prompt) >= Len(sum_arg)
          /\ df = <<>> =>
                /\ Len(prompt) = Len(sum_arg)
                /\ \A i \in 1..Len(prompt) :
                      /\ prompt[i].line = "header"
                      /\ prompt[i].text = sum_arg[i].topic

\* the backend was called for two topics whose fetches returned no item
BackendCalledWithHeadersOnly ==
    /\ backend_calls = 1
    /\ df = <<>>
    /\ Len(sum_arg) = 2
    /\ Len(prompt) = 2

(***************************************************************************)
(* C13 as stated: a run with a valid topic whose fetches all returned      *)
(* ends with the success tuple, whose summary is left unchanged and whose  *)
(* table is the table of the tuple before it.                              *)
(***************************************************************************)
LastTableEqualsPrecedingTable ==
    (~fetch_failed /\ pc = "done" /\ valid_topics # <<>>) =>
        /\ LastSnapshot.kind = "success"
        /\ ~LastSnapshot.summary.set
        /\ LastSnapshot.table = emitted[Len(emitted) - 1].table

(***************************************************************************)
(* C13 amended: every run terminates (it ends, or a fetch raises), and a   *)
(* run with a valid topic that ends has the success tuple as its last      *)
(* tuple, yielded once the summary stream is over, with the success line   *)
(* as last log line, the summary left unchanged and the finalized          *)
(* aggregate table; that table is the table of the tuple before it when    *)
(* that tuple carries a summary text.                                      *)
(***************************************************************************)
RunTerminatesWithSuccessTuple ==
    /\ <>(pc \in {"done", "raised"})
    /\ [](pc \in {"stream", "sum_last"} =>
              \A k \in 1..Len(emitted) : emitted[k].kind # "success")
    /\ []((pc = "done" /\ valid_topics # <<>>) =>
              /\ LastSnapshot.kind = "success"
              /\ \A k \in 1..(Len(emitted) - 1) :
                    emitted[k].kind # "success"
              /\ LastSnapshot.log[Len(LastSnapshot.log)].msg
                     = "Success. Intelligence briefing ready."
              /\ ~LastSnapshot.summary.set
              /\ LastSnapshot.table = master_table
              /\ emitted[Len(emitted) - 1].kind = "summary" =>
                    LastSnapshot.table = emitted[Len(emitted) - 1].table)

\* a run with rows has ended after the stream yielded texts
RunEndedAfterSummaryTexts ==
    /\ pc = "done"
    /\ df # <<>>
    /\ Len(yielded) >= 2
    /\ LastSnapshot.kind = "success"

(***************************************************************************)
(* C14: summarize called with an empty mapping yields exactly one item,    *)
(* the no-data text, and ends; the backend is not called and no prompt is  *)
(* built.                                                                  *)
(***************************************************************************)
EmptyMappingYieldsNoDataOnce ==
    (pc \in {"call_begin", "call_stream", "call_last", "call_end"}
     /\ sum_arg = <<>>) =>
        /\ backend_calls = 0
        /\ prompt = <<>>
        /\ pc # "call_stream"
        /\ yielded = IF pc = "call_begin" THEN <<>>
                     ELSE <<<<"No data gathered.">>>>

\* the call with the empty mapping has ended
EmptyMappingCallEnded ==
    /\ pc = "call_end"
    /\ sum_arg = <<>>
    /\ Len(yielded) = 1

(***************************************************************************)
(* What a run yields when it executes alone, as a function of what that    *)
(* run was given: its topics, the provider's responses to its fetches and  *)
(* the chunks of its backend stream.                                       *)
(***************************************************************************)
RECURSIVE RowsAlone(_, _, _)
RowsAlone(valid, resps, n) ==
    IF n = 0 THEN <<>>
    ELSE RowsAlone(valid, resps, n - 1)
         \o Rows(valid[n], deduplicate(fetch_google_rss(resps[n]).items))

RECURSIVE TextsAlone(_, _)
TextsAlone(chunks, acc) ==
    IF chunks = <<>> THEN <<>>
    ELSE IF Head(chunks) = <<>> THEN TextsAlone(Tail(chunks), acc)
    ELSE <<acc \o Head(chunks)>>
         \o TextsAlone(Tail(chunks), acc \o Head(chunks))

LogsAlone(F) ==
    LET valid == SelectSeq(F.topics_in, LAMBDA t : ~Blank(t))
        scans == IF F.pc \in {"fetch", "raised"} THEN F.idx + 1 ELSE F.idx
    IN IF F.pc = "start" THEN <<>>
       ELSE IF valid = <<>>
       THEN <<LogLine("Aborted: No topics entered.", 0, <<>>)>>
       ELSE <<LogLine("Starting analysis", Len(valid), <<>>)>>
            \o [i \in 1..scans |-> LogLine("Fetching RSS for", 0, valid[i])]
            \o [i \in 1..Len(F.yielded) |-> ThinkingLine]
            \o (IF F.pc = "done" THEN <<SuccessLine>> ELSE <<>>)

AsAlone(F) ==
    LET valid == SelectSeq(F.topics_in, LAMBDA t : ~Blank(t))
        table == RowsAlone(valid, F.responses, F.idx)
        texts == TextsAlone(F.stream, <<>>)
        shown == SelectSeq(F.emitted, LAMBDA s : s.kind = "summary")
    IN /\ F.logs = LogsAlone(F)
       /\ F.master_table = table
       /\ F.accumulated = IF texts = <<>> THEN <<>> ELSE texts[Len(texts)]
       /\ \/ F.yielded = texts
          \/ /\ F.pc \in {"sum_last", "done"}
             /\ \E e \in ExceptionTexts :
                   F.yielded = Append(texts, ErrorText(e))
       /\ Len(shown) = Len(F.yielded)
       /\ \A k \in 1..Len(shown) : shown[k].summary.text = F.yielded[k]
       /\ \A k \in 1..Len(F.emitted) :
             /\ F.emitted[k].log = SubSeq(F.logs, 1, k)
             /\ F.emitted[k].table =
                    IF F.emitted[k].kind \in {"summary", "success"}
                    THEN table ELSE <<>>

(***************************************************************************)
(* C16: of two runs whose steps interleave, each has the log text, the     *)
(* table and the summary texts it would have had alone with the same       *)
(* fetch and backend responses.                                            *)
(***************************************************************************)
TwoRunsIsolated == AsAlone(CurrentFrame) /\ AsAlone(parked)

\* both runs are in the middle of their summary streams
TwoRunsMidStream ==
    /\ pc = "stream"
    /\ parked.pc = "stream"
    /\ accumulated # <<>>
    /\ parked.accumulated # <<>>
    /\ accumulated # parked.accumulated
    /\ master_table # parked.master_table

(***************************************************************************)
(* C17 as stated: no load or save lets an exception escape; a load that    *)
(* finds no record or cannot reach the store returns the default record;   *)
(* a save whose writing or uploading fails returns a failure text.         *)
(***************************************************************************)
PrefsFailureNeverEscapes ==
    /\ ~p_ret.raised
    /\ (p_ret.op = "load" /\ p_ret.cause \in {"absent", "unreachable"}) =>
          /\ p_ret.prefs.topics = <<"Artificial Intelligence",
                                    "Space Exploration", "Quantum Computing">>
          /\ p_ret.prefs.country = "IN"
    /\ p_ret.op = "save" =>
          /\ p_ret.msg # ""
          /\ p_ret.cause \in {"write", "upload"} =>
                p_ret.msg # "Saved to Cloud."

====
